---- MODULE Spec2Model ----
(***************************************************************************)
(* Model of main.py: fetch Polymarket markets from the gamma API and       *)
(* export them as a 3-column Excel workbook.                               *)
(*                                                                         *)
(* Python values are tagged records; a Python str is a sequence of         *)
(* one-character strings, so that strip(), lower(), str() and the          *)
(* lexicographic order of sort_values are computed, not assumed.           *)
(***************************************************************************)
EXTENDS Integers, Sequences, FiniteSets, TLC

(***************************************************************************)
(* Bounds of the model.                                                    *)
(***************************************************************************)
\* longest list of markets an endpoint returns
MaxMarkets == 2

(***************************************************************************)
(* JSON / Python values.                                                   *)
(***************************************************************************)
NoneV == [t |-> "none"]
\* marks a key that the dict does not hold (never a value m.get returns)
Absent == [t |-> "absent"]
StrV(s) == [t |-> "str", s |-> s]
IntV(n) == [t |-> "int", n |-> n]
BoolV(b) == [t |-> "bool", b |-> b]
ListV(xs) == [t |-> "list", xs |-> xs]
DictV(f) == [t |-> "dict", f |-> f]

\* k in m
Has(m, k) == k \in DOMAIN m.f /\ m.f[k] # Absent

\* m.get(k): None when the key is missing
Get(m, k) == IF Has(m, k) THEN m.f[k] ELSE NoneV

\* bool(v), the truth value that `or`, `and`, `not` and `if` test
Truthy(v) ==
    CASE v.t = "none" -> FALSE
      [] v.t = "str"  -> v.s # <<>>
      [] v.t = "int"  -> v.n # 0
      [] v.t = "bool" -> v.b
      [] v.t = "list" -> v.xs # <<>>
      [] v.t = "dict" -> \E k \in DOMAIN v.f : v.f[k] # Absent

\* a or b
PyOr(a, b) == IF Truthy(a) THEN a ELSE b

(***************************************************************************)
(* Strings.                                                                *)
(***************************************************************************)
UpperAlpha == <<"A","B","C","D","E","F","G","H","I","J","K","L","M",
                "N","O","P","Q","R","S","T","U","V","W","X","Y","Z">>
LowerAlpha == <<"a","b","c","d","e","f","g","h","i","j","k","l","m",
                "n","o","p","q","r","s","t","u","v","w","x","y","z">>
Digits == <<"0","1","2","3","4","5","6","7","8","9">>

\* U+2014 EM DASH, one character (the module text is ASCII)
EmDash == "U+2014"

\* the characters of the model in code point order
CodePoints == <<"\t", "\n", " ", "'", ",">> \o Digits \o UpperAlpha \o <<"[", "]">>
              \o LowerAlpha \o <<EmDash>>

\* ord(c), up to an order-preserving renumbering
Ord(c) == CHOOSE i \in 1..Len(CodePoints) : CodePoints[i] = c

Whitespace == {" ", "\t", "\n"}

LowerChar(c) ==
    IF \E i \in 1..Len(UpperAlpha) : UpperAlpha[i] = c
    THEN LowerAlpha[CHOOSE i \in 1..Len(UpperAlpha) : UpperAlpha[i] = c]
    ELSE c

\* s.lower()
Lower(s) == [i \in 1..Len(s) |-> LowerChar(s[i])]

RECURSIVE LStrip(_)
LStrip(s) == IF s # <<>> /\ Head(s) \in Whitespace THEN LStrip(Tail(s)) ELSE s

RECURSIVE RStrip(_)
RStrip(s) ==
    IF s # <<>> /\ s[Len(s)] \in Whitespace THEN RStrip(SubSeq(s, 1, Len(s) - 1)) ELSE s

\* s.strip()
Strip(s) == RStrip(LStrip(s))

\* decimal digits of a natural number
RECURSIVE DecimalOf(_)
DecimalOf(n) == IF n < 10 THEN <<Digits[n + 1]>> ELSE DecimalOf(n \div 10) \o <<Digits[(n % 10) + 1]>>

RECURSIVE PyRepr(_)
RECURSIVE ReprJoin(_)
\* repr(v) for the values a JSON document holds (strings without quotes or escapes)
PyRepr(v) ==
    CASE v.t = "none" -> <<"N","o","n","e">>
      [] v.t = "str"  -> <<"'">> \o v.s \o <<"'">>
      [] v.t = "int"  -> DecimalOf(v.n)
      [] v.t = "bool" -> IF v.b THEN <<"T","r","u","e">> ELSE <<"F","a","l","s","e">>
      [] v.t = "list" -> <<"[">> \o ReprJoin(v.xs) \o <<"]">>

\* ", ".join(repr(x) for x in xs)
ReprJoin(xs) ==
    IF xs = <<>> THEN <<>>
    ELSE IF Len(xs) = 1 THEN PyRepr(xs[1])
    ELSE PyRepr(xs[1]) \o <<",", " ">> \o ReprJoin(Tail(xs))

\* str(v)
PyStr(v) == IF v.t = "str" THEN v.s ELSE PyRepr(v)

\* [str(o) for o in xs]
StrEach(xs) == [i \in 1..Len(xs) |-> PyStr(xs[i])]

(***************************************************************************)
(* extract_title_and_outcomes                                              *)
(***************************************************************************)
Untitled == <<"U","n","t","i","t","l","e","d"," ","M","a","r","k","e","t">>
Dash == <<EmDash>>
YesNo == << <<"Y","e","s">>, <<"N","o">> >>
Placeholders == <<Dash, Dash>>
RecognizedTypes == { <<"b","i","n","a","r","y">>, <<"s","c","a","l","a","r">>,
                     <<"r","a","n","g","e">> }

\* a lookup that takes the first value that is not None
TitleLookup_FirstNotNone(m) ==
    LET Else(a, b) == IF a # NoneV THEN a ELSE b
    IN  Else(Else(Else(Else(Get(m, "question"), Get(m, "title")), Get(m, "name")),
                  Get(m, "slug")),
             StrV(Untitled))

\* the local `title` before str().strip()
TitleLookup(m) ==
    PyOr(PyOr(PyOr(PyOr(Get(m, "question"), Get(m, "title")), Get(m, "name")),
              Get(m, "slug")),
         StrV(Untitled))

\* outcomes after the 'outcomes' key: None, or the list of str
OutcomesPrimary(m) ==
    IF Get(m, "outcomes").t = "list" /\ Truthy(Get(m, "outcomes"))
    THEN ListV(StrEach(Get(m, "outcomes").xs))
    ELSE NoneV

\* outcomes after the 'outcomeNames' key
OutcomesAlternate(m, outcomes) ==
    IF ~Truthy(outcomes) /\ Get(m, "outcomeNames").t = "list"
    THEN ListV(StrEach(Get(m, "outcomeNames").xs))
    ELSE outcomes

\* the operand of .lower()
CondTypeLookup(m) == PyOr(PyOr(Get(m, "conditionType"), Get(m, "type")), StrV(<<>>))

\* .lower() exists on str only: any other operand raises AttributeError
CondTypeRaises(m, outcomes) == ~Truthy(outcomes) /\ CondTypeLookup(m).t # "str"

\* a fallback that compares without .lower()
OutcomesByType_CaseSensitive(m, outcomes) ==
    IF ~Truthy(outcomes) /\ CondTypeLookup(m).s \in RecognizedTypes
    THEN ListV(YesNo)
    ELSE outcomes

\* outcomes after the conditionType/type fallback (when it does not raise)
OutcomesByType(m, outcomes) ==
    IF ~Truthy(outcomes) /\ Lower(CondTypeLookup(m).s) \in RecognizedTypes
    THEN ListV(YesNo)
    ELSE outcomes

\* a fallback that tests `outcomes is None`
OutcomesOrPlaceholders_IfNone(outcomes) ==
    IF outcomes = NoneV THEN ListV(Placeholders) ELSE outcomes

\* the final placeholder fallback
OutcomesOrPlaceholders(outcomes) ==
    IF ~Truthy(outcomes) THEN ListV(Placeholders) ELSE outcomes

\* the returned title
FinalTitle(title) == Strip(PyStr(title))

Raised(e) == [ok |-> FALSE, err |-> e]
Returned(title, outcomes) == [ok |-> TRUE, title |-> title, outcomes |-> outcomes]

\* extract_title_and_outcomes(m): the returned pair, or the exception raised.
\* A list item that is no dict has no .get: the first m.get raises.
extract_title_and_outcomes(m) ==
    IF m.t # "dict" THEN Raised("AttributeError")
    ELSE LET o2 == OutcomesAlternate(m, OutcomesPrimary(m))
         IN  IF CondTypeRaises(m, o2) THEN Raised("AttributeError")
             ELSE Returned(FinalTitle(TitleLookup(m)),
                           OutcomesOrPlaceholders(OutcomesByType(m, o2)).xs)

(***************************************************************************)
(* build_rows                                                              *)
(***************************************************************************)
\* a filter that drops only the records with more than two outcomes
KeepRecord_AtMostTwo(outcomes, include_multi) ==
    /\ outcomes # <<>>
    /\ ~(~include_multi /\ Len(outcomes) > 2)

\* the two tests that skip a record
KeepRecord(outcomes, include_multi) ==
    /\ outcomes # <<>>
    /\ ~(~include_multi /\ Len(outcomes) # 2)

\* the dict appended for a kept record (its three columns)
RowOf(title, outcomes) ==
    [title |-> title,
     opt_a |-> IF Len(outcomes) >= 1 THEN outcomes[1] ELSE Dash,
     opt_b |-> IF Len(outcomes) >= 2 THEN outcomes[2] ELSE Dash]

(***************************************************************************)
(* fetch_markets                                                           *)
(***************************************************************************)
\* len(GAMMA_ENDPOINTS)
NumEndpoints == 3

\* a fetch_markets that accepts the object shape only
IsUsable_ObjectOnly(data) ==
    data.t = "dict" /\ Has(data, "markets") /\ data.f["markets"].t = "list"

\* does fetch_markets return on this JSON document
IsUsable(data) ==
    \/ data.t = "dict" /\ Has(data, "markets") /\ data.f["markets"].t = "list"
    \/ data.t = "list"

\* the list fetch_markets returns for a usable document
UsableList(data) ==
    IF data.t = "dict" /\ Has(data, "markets") /\ data.f["markets"].t = "list"
    THEN data.f["markets"].xs
    ELSE data.xs

(***************************************************************************)
(* write_excel                                                             *)
(***************************************************************************)
\* a write_excel without the test
RowsEmpty_NoTest(rs) == FALSE

\* `not rows`: the test that makes write_excel raise
RowsEmpty(rs) == rs = <<>>

\* a < b for str, by code point
RECURSIVE StrLess(_, _)
StrLess(a, b) ==
    IF b = <<>> THEN FALSE
    ELSE IF a = <<>> THEN TRUE
    ELSE IF Head(a) = Head(b) THEN StrLess(Tail(a), Tail(b))
    ELSE Ord(Head(a)) < Ord(Head(b))

StrLeq(a, b) == a = b \/ StrLess(a, b)

\* the orders of the index 1..n
Orders(n) == {p \in [1..n -> 1..n] : \A i, j \in 1..n : i # j => p[i] # p[j]}

\* a write_excel that does not sort
SortValues_Unsorted(rows) == {rows}

\* df.sort_values(by=title), kind="quicksort": ascending by title; the order of
\* rows with equal titles is whatever the sort leaves (quicksort is not stable)
SortValues(rows) ==
    {[i \in 1..Len(rows) |-> rows[p[i]]] : p \in
        {q \in Orders(Len(rows)) :
            \A i \in 1..Len(rows) - 1 : StrLeq(rows[q[i]].title, rows[q[i + 1]].title)}}

(***************************************************************************)
(* The inputs: what the endpoints may answer and what a record may hold.   *)
(***************************************************************************)
Str_a == <<"a">>
Str_b == <<"b">>
Str_B == <<"B">>
StrList(ss) == ListV([i \in 1..Len(ss) |-> StrV(ss[i])])

\* the items an endpoint's list is made of: market objects, and one item that is
\* no object at all
SampleMarkets ==
    { DictV([question |-> StrV(Str_b), outcomes |-> StrList(YesNo)]),
      DictV([title |-> StrV(Str_a),
             outcomes |-> StrList(<< <<"R","e","d">>, <<"B","l","u","e">>, <<"G","r","e","e","n">> >>)]),
      DictV([slug |-> StrV(Str_b)]),
      DictV([name |-> StrV(<<" ", "a", " ">>), outcomes |-> StrList(<< <<"U","p">> >>)]),
      DictV([title |-> StrV(Str_a), type |-> StrV(<<"B","i","n","a","r","y">>)]),
      DictV([question |-> StrV(Str_B), conditionType |-> IntV(5)]),
      DictV([question |-> StrV(<<>>), title |-> StrV(Str_B), outcomes |-> ListV(<<>>),
             outcomeNames |-> StrList(<< <<"U","p">>, <<"D","o","w","n">> >>)]),
      DictV([outcomeNames |-> ListV(<<>>), conditionType |-> StrV(<<"o","t","h","e","r">>),
             type |-> StrV(<<"r","a","n","g","e">>)]),
      IntV(5) }

RECURSIVE SeqsUpTo(_, _)
SeqsUpTo(S, n) ==
    IF n = 0 THEN {<<>>}
    ELSE LET shorter == SeqsUpTo(S, n - 1)
         IN  shorter \cup {Append(xs, x) : xs \in {ys \in shorter : Len(ys) = n - 1}, x \in S}

MarketLists == SeqsUpTo(SampleMarkets, MaxMarkets)

\* what one GET may come to
Shapes == {"error", "object_with_list", "bare_list", "object_markets_not_list",
           "object_without_markets", "scalar"}
UsableShapes == {"object_with_list", "bare_list"}

\* what the history of requests keeps of a response
ShapeClass(shape) ==
    IF shape = "error" THEN "error"
    ELSE IF shape \in UsableShapes THEN "usable" ELSE "unusable"

\* resp.json() for a response of the shape, carrying the list xs
Document(shape, xs) ==
    CASE shape = "object_with_list" -> DictV([markets |-> ListV(xs)])
      [] shape = "bare_list" -> ListV(xs)
      [] shape = "object_markets_not_list" -> DictV([markets |-> StrV(Str_a)])
      [] shape = "object_without_markets" -> DictV([error |-> StrV(Str_a)])
      [] shape = "scalar" -> StrV(Str_a)

\* every record over these field values (Absent: the key is missing)
Records ==
    { DictV(f) : f \in
        [question : {Absent, NoneV, StrV(<<>>), StrV(<<" ", "a", "\n">>)},
         title : {Absent, StrV(<<>>), StrV(Str_b), IntV(0)},
         name : {Absent, StrV(<<" ">>), StrList(<<Str_a>>)},
         slug : {Absent, StrV(<<"s">>)},
         outcomes : {Absent, ListV(<<>>), StrList(YesNo), StrList(<< <<"U","p">> >>),
                     ListV(<<IntV(1), NoneV, StrV(<<"X">>)>>), StrV(<<"x">>)},
         outcomeNames : {Absent, ListV(<<>>), StrV(<<"x">>),
                         StrList(<< <<"U","p">>, <<"D","o","w","n">> >>)},
         conditionType : {Absent, StrV(<<>>), StrV(<<"B","i","n","a","r","y">>),
                          StrV(<<"S","C","A","L","A","R">>), StrV(<<"o","t","h","e","r">>),
                          IntV(5)},
         type : {Absent, StrV(<<"r","A","n","g","e">>), StrV(<<"o","t","h","e","r">>),
                 IntV(5)}] }

(***************************************************************************)
(* The state of one run of main().                                         *)
(***************************************************************************)
VARIABLES
    pc,            \* where the run is: "fetch", "build", "write", "exit"
    include_multi, \* args.include_multi
    url,           \* fetch_markets: index of the endpoint the loop is at
    last_err,      \* fetch_markets: endpoint of the last exception, 0 for None
    requests,      \* history: the GETs issued, with what each came to
    served,        \* history: the list carried by the last response
    markets,       \* the list fetch_markets returned
    i,             \* build_rows: index of the record the loop is at
    rows,          \* build_rows: the rows so far; then main's rows
    norms,         \* history: what extract_title_and_outcomes gave per record
    skipped_empty, \* history: build_rows skipped a record for empty outcomes
    called,        \* history: the functions main has called after fetch_markets
    stderr,        \* messages printed to sys.stderr
    stdout,        \* messages printed to sys.stdout
    file,          \* the output file: "untouched", "partial", "complete"
    sheet,         \* the rows of sheet "Polymarket" of a complete file
    exit_status    \* the process's exit status, -1 while it runs

vars == <<pc, include_multi, url, last_err, requests, served, markets, i, rows, norms,
          skipped_empty, called, stderr, stdout, file, sheet, exit_status>>

\* main() has parsed its arguments and is entering fetch_markets
Init ==
    /\ pc = "fetch"
    /\ include_multi \in BOOLEAN
    /\ url = 1
    /\ last_err = 0
    /\ requests = <<>>
    /\ served = <<>>
    /\ markets = <<>>
    /\ i = 1
    /\ rows = <<>>
    /\ norms = <<>>
    /\ skipped_empty = FALSE
    /\ called = {}
    /\ stderr = <<>>
    /\ stdout = <<>>
    /\ file = "untouched"
    /\ sheet = <<>>
    /\ exit_status = -1

\* one iteration of the loop of fetch_markets; a usable document returns to main,
\* which calls build_rows
TryEndpoint ==
    /\ pc = "fetch"
    /\ url <= NumEndpoints
    /\ \E shape \in Shapes :
       \E xs \in (IF shape \in UsableShapes THEN MarketLists ELSE {<<>>}) :
          /\ served' = xs
          /\ requests' = Append(requests, [url |-> url, got |-> ShapeClass(shape)])
          /\ IF shape = "error"
             THEN /\ last_err' = url
                  /\ url' = url + 1
                  /\ UNCHANGED <<pc, markets, called>>
             ELSE IF IsUsable(Document(shape, xs))
             THEN /\ markets' = UsableList(Document(shape, xs))
                  /\ pc' = "build"
                  /\ called' = called \cup {"build_rows"}
                  /\ UNCHANGED <<url, last_err>>
             ELSE /\ url' = url + 1
                  /\ UNCHANGED <<pc, last_err, markets, called>>
    /\ UNCHANGED <<include_multi, i, rows, norms, skipped_empty, stderr, stdout, file,
                   sheet, exit_status>>

\* the loop is over: fetch_markets raises RuntimeError, main prints and exits 2
FetchExhausted ==
    /\ pc = "fetch"
    /\ url > NumEndpoints
    /\ stderr' = Append(stderr, "fetch_error")
    /\ exit_status' = 2
    /\ pc' = "exit"
    /\ UNCHANGED <<include_multi, url, last_err, requests, served, markets, i, rows, norms,
                   skipped_empty, called, stdout, file, sheet>>

\* one iteration of the loop of build_rows; an exception of
\* extract_title_and_outcomes is caught nowhere and ends the process with status 1
BuildRowsStep ==
    /\ pc = "build"
    /\ i <= Len(markets)
    /\ LET r == extract_title_and_outcomes(markets[i])
       IN  /\ norms' = Append(norms, r)
           /\ IF ~r.ok
              THEN /\ stderr' = Append(stderr, "traceback")
                   /\ exit_status' = 1
                   /\ pc' = "exit"
                   /\ UNCHANGED <<i, rows, skipped_empty>>
              ELSE /\ rows' = IF KeepRecord(r.outcomes, include_multi)
                              THEN Append(rows, RowOf(r.title, r.outcomes))
                              ELSE rows
                   /\ skipped_empty' = (skipped_empty \/ r.outcomes = <<>>)
                   /\ i' = i + 1
                   /\ UNCHANGED <<pc, stderr, exit_status>>
    /\ UNCHANGED <<include_multi, url, last_err, requests, served, markets, called, stdout,
                   file, sheet>>

\* build_rows returns; main warns when there are no rows and calls write_excel
BuildRowsReturn ==
    /\ pc = "build"
    /\ i > Len(markets)
    /\ stderr' = IF rows = <<>> THEN Append(stderr, "no_rows_warning") ELSE stderr
    /\ called' = called \cup {"write_excel"}
    /\ pc' = "write"
    /\ UNCHANGED <<include_multi, url, last_err, requests, served, markets, i, rows, norms,
                   skipped_empty, stdout, file, sheet, exit_status>>

\* write_excel raises on an empty list, before it opens anything
WriteExcelEmpty ==
    /\ pc = "write"
    /\ RowsEmpty(rows)
    /\ stderr' = Append(stderr, "write_error")
    /\ exit_status' = 3
    /\ pc' = "exit"
    /\ UNCHANGED <<include_multi, url, last_err, requests, served, markets, i, rows, norms,
                   skipped_empty, called, stdout, file, sheet>>

\* write_excel writes the workbook; main prints the confirmation and ends
WriteExcelDone ==
    /\ pc = "write"
    /\ ~RowsEmpty(rows)
    /\ \E df \in SortValues(rows) :
          /\ sheet' = df
          /\ file' = "complete"
    /\ stdout' = Append(stdout, [msg |-> "done", count |-> Len(rows)])
    /\ exit_status' = 0
    /\ pc' = "exit"
    /\ UNCHANGED <<include_multi, url, last_err, requests, served, markets, i, rows, norms,
                   skipped_empty, called, stderr>>

\* the writer raises: opening it (nothing is written), or in to_excel or when the
\* with block closes the writer (the file may be there, incomplete)
WriteExcelFails ==
    /\ pc = "write"
    /\ ~RowsEmpty(rows)
    /\ \E opened \in BOOLEAN :
          file' \in (IF opened THEN {"untouched", "partial"} ELSE {"untouched"})
    /\ stderr' = Append(stderr, "write_error")
    /\ exit_status' = 3
    /\ pc' = "exit"
    /\ UNCHANGED <<include_multi, url, last_err, requests, served, markets, i, rows, norms,
                   skipped_empty, called, stdout, sheet>>

Next ==
    \/ TryEndpoint
    \/ FetchExhausted
    \/ BuildRowsStep
    \/ BuildRowsReturn
    \/ WriteExcelEmpty
    \/ WriteExcelDone
    \/ WriteExcelFails

Spec == Init /\ [][Next]_vars

(***************************************************************************)
(* build_rows on one record: the first endpoint has returned [m].          *)
(***************************************************************************)
InitRecord ==
    /\ pc = "build"
    /\ include_multi \in BOOLEAN
    /\ url = 1
    /\ last_err = 0
    /\ \E m \in Records :
          /\ served = <<m>>
          /\ markets = <<m>>
    /\ requests = <<[url |-> 1, got |-> "usable"]>>
    /\ i = 1
    /\ rows = <<>>
    /\ norms = <<>>
    /\ skipped_empty = FALSE
    /\ called = {"build_rows"}
    /\ stderr = <<>>
    /\ stdout = <<>>
    /\ file = "untouched"
    /\ sheet = <<>>
    /\ exit_status = -1

NextRecord ==
    \/ BuildRowsStep
    \/ BuildRowsReturn

SpecRecord == InitRecord /\ [][NextRecord]_vars
(***************************************************************************)
(* Properties.                                                             *)
(***************************************************************************)
Terminated == pc = "exit"
FetchFailed == Terminated /\ \A k \in 1..Len(requests) : requests[k].got # "usable"
FetchReturned == \E k \in 1..Len(requests) : requests[k].got = "usable"
BuildReturned == "write_excel" \in called

\* C1: every run of main() ends with exit status 0, 2 or 3: 2 exactly when
\* fetch_markets failed, 3 exactly when the fetch succeeded and write_excel failed,
\* 0 (confirmation printed) exactly when the workbook was written; nothing uncaught
\* escapes between the fetch and the write.
C1_ExitStatusIsZeroTwoOrThree ==
    (Terminated /\ \A k \in 1..Len(markets) : markets[k].t = "dict") =>
        /\ exit_status \in {0, 2, 3}
        /\ (exit_status = 2) <=> FetchFailed
        /\ (exit_status = 3) <=> (FetchReturned /\ file # "complete")
        /\ (exit_status = 0) <=> (file = "complete" /\ stdout # <<>>)

\* C2: fetch_markets requests the endpoints in their fixed order, each at most once:
\* endpoint k+1 only after endpoint k raised or gave an unusable document, nothing
\* after the first usable document, whose list is the list returned; it fails only
\* after all three endpoints have been tried without a usable document.
C2_EndpointsInOrderFirstUsableWins ==
    /\ Len(requests) <= NumEndpoints
    /\ \A k \in 1..Len(requests) : requests[k].url = k
    /\ \A k \in 1..Len(requests) - 1 : requests[k].got \in {"error", "unusable"}
    /\ FetchReturned <=> pc \in {"build", "write"} \/ exit_status \in {0, 1, 3}
    /\ FetchReturned => markets = served
    /\ exit_status = 2 => /\ Len(requests) = NumEndpoints
                          /\ \A k \in 1..Len(requests) : requests[k].got \in {"error", "unusable"}

\* C2 witness: the third endpoint, asked after an exception and an unusable document,
\* gave the list that is returned
C2_Witness_ThirdEndpointServes ==
    /\ Len(requests) = NumEndpoints
    /\ requests[1].got = "error"
    /\ requests[2].got = "unusable"
    /\ requests[3].got = "usable"
    /\ Len(markets) = MaxMarkets
    /\ pc = "build"

\* C3: extract_title_and_outcomes is total: for every record mapping, whatever its
\* fields hold, it returns a (title, outcomes) pair and never raises.
C3_ExtractNeverRaises ==
    \A k \in 1..Len(norms) : markets[k].t = "dict" => norms[k].ok

TitleKeys == <<"question", "title", "name", "slug">>

\* the title the record m must get when the first of the four fields whose value
\* satisfies Wins gives it
TitleBy(Wins(_), m, title) ==
    IF \E k \in 1..Len(TitleKeys) : Wins(Get(m, TitleKeys[k]))
    THEN \E k \in 1..Len(TitleKeys) :
            /\ Wins(Get(m, TitleKeys[k]))
            /\ \A j \in 1..(k - 1) : ~Wins(Get(m, TitleKeys[j]))
            /\ title = Strip(PyStr(Get(m, TitleKeys[k])))
    ELSE title = Untitled

NotNone(v) == v # NoneV

\* C4 as stated: the title is the trimmed value of the first of question, title,
\* name, slug that is present and not null (an empty string included); the
\* placeholder "Untitled Market" only when none of the four is present.
C4_TitleIsFirstNonNullField ==
    \A n \in 1..Len(norms) : norms[n].ok => TitleBy(NotNone, markets[n], norms[n].title)

\* C4 as amended: the title is the trimmed str() of the first of question, title,
\* name, slug whose value is truthy (not null, not "", not 0, not False, not empty);
\* the placeholder "Untitled Market" when none of the four is truthy.
C4_TitleIsFirstTruthyField ==
    \A n \in 1..Len(norms) : norms[n].ok => TitleBy(Truthy, markets[n], norms[n].title)

\* C4 witness: question is "" and the title comes from the title field
C4_Witness_EmptyQuestionSkipped ==
    /\ Len(norms) = 1
    /\ norms[1].ok
    /\ Get(markets[1], "question") = StrV(<<>>)
    /\ Get(markets[1], "title") = StrV(Str_b)
    /\ norms[1].title = Str_b

Recognized(v) == v.t = "str" /\ Lower(v.s) \in RecognizedTypes
NoOutcomesField(m) == ~Has(m, "outcomes") /\ ~Has(m, "outcomeNames")

\* C5 as stated: a record without outcomes and outcomeNames whose conditionType or
\* type holds "binary", "scalar" or "range" in any letter case gets ["Yes","No"],
\* whichever of the two fields holds it and whatever the other one holds.
C5_EitherCategoryFieldGivesYesNo ==
    \A n \in 1..Len(norms) :
        ( /\ NoOutcomesField(markets[n])
          /\ \/ Recognized(Get(markets[n], "conditionType"))
             \/ Recognized(Get(markets[n], "type")) )
        => norms[n].ok /\ norms[n].outcomes = YesNo

\* C5 as amended: such a record gets ["Yes","No"] when conditionType holds the
\* recognized value, or when conditionType is falsy (missing, null, "") and type
\* holds it; a truthy conditionType hides type.
C5_FirstTruthyCategoryFieldGivesYesNo ==
    \A n \in 1..Len(norms) :
        ( /\ NoOutcomesField(markets[n])
          /\ \/ Recognized(Get(markets[n], "conditionType"))
             \/ /\ ~Truthy(Get(markets[n], "conditionType"))
                /\ Recognized(Get(markets[n], "type")) )
        => norms[n].ok /\ norms[n].outcomes = YesNo

\* C5 witness: conditionType is "" and type is "rAnge"
C5_Witness_TypeFieldUsed ==
    /\ Len(norms) = 1
    /\ NoOutcomesField(markets[1])
    /\ Get(markets[1], "conditionType") = StrV(<<>>)
    /\ Get(markets[1], "type") = StrV(<<"r","A","n","g","e">>)
    /\ norms[1].ok
    /\ norms[1].outcomes = YesNo

NonEmptyList(v) == v.t = "list" /\ v.xs # <<>>
NoOutcomeData(m) ==
    /\ ~NonEmptyList(Get(m, "outcomes"))
    /\ ~NonEmptyList(Get(m, "outcomeNames"))
    /\ ~Recognized(Get(m, "conditionType"))
    /\ ~Recognized(Get(m, "type"))

\* C6: the outcomes extract_title_and_outcomes returns are never empty; when
\* outcomes and outcomeNames are missing, not lists or empty lists and no recognized
\* category value is there, they are exactly the placeholder pair; so build_rows
\* never takes its empty-outcomes skip.
C6_OutcomesNeverEmpty ==
    /\ ~skipped_empty
    /\ \A n \in 1..Len(norms) :
          norms[n].ok =>
             /\ norms[n].outcomes # <<>>
             /\ NoOutcomeData(markets[n]) => norms[n].outcomes = Placeholders

\* C6 witness: outcomes and outcomeNames are both [] and the pair is the placeholders
C6_Witness_EmptyListsGivePlaceholders ==
    /\ Len(norms) = 1
    /\ Get(markets[1], "outcomes") = ListV(<<>>)
    /\ Get(markets[1], "outcomeNames") = ListV(<<>>)
    /\ norms[1].ok
    /\ norms[1].outcomes = Placeholders
    /\ Len(rows) = 1

Survives(n, multi) == multi \/ Len(n.outcomes) = 2
ExpectedRow(n) ==
    [title |-> n.title,
     opt_a |-> n.outcomes[1],
     opt_b |-> IF Len(n.outcomes) = 1 THEN Dash ELSE n.outcomes[2]]

\* C7: build_rows returns, in the order of the records, one row per record that
\* passes the filter and nothing else: without include_multi the records with
\* exactly two outcomes, with it every record; the row is (title, outcomes[0],
\* outcomes[1]), with the dash for option B when there is one outcome only, and
\* outcomes past the second dropped.
C7_OneRowPerSurvivingRecordInOrder ==
    BuildReturned =>
        LET kept == {k \in 1..Len(markets) : Survives(norms[k], include_multi)}
        IN  /\ Len(norms) = Len(markets)
            /\ Len(rows) = Cardinality(kept)
            /\ \E f \in [1..Len(rows) -> kept] :
                  /\ \A a, b \in 1..Len(rows) : a < b => f[a] < f[b]
                  /\ \A a \in 1..Len(rows) : rows[a] = ExpectedRow(norms[f[a]])

\* C7 witness: without include_multi, a three-outcome record is dropped and the
\* placeholder-pair record after it is the only row
C7_Witness_MultiDroppedPlaceholderKept ==
    /\ BuildReturned
    /\ ~include_multi
    /\ Len(markets) = 2
    /\ Len(norms[1].outcomes) = 3
    /\ norms[2].outcomes = Placeholders
    /\ rows = <<[title |-> Str_b, opt_a |-> Dash, opt_b |-> Dash]>>

\* C8: when the fetch succeeds and build_rows returns no rows, main prints the
\* warning first, still calls write_excel, which fails on the empty row set before
\* any file is opened, and the run ends with status 3 without the confirmation;
\* the warning alone never ends the run.
C8_EmptyRowsWarnThenWriteFails ==
    /\ (BuildReturned /\ rows = <<>>) =>
          /\ stderr # <<>> /\ stderr[1] = "no_rows_warning"
          /\ stdout = <<>>
          /\ file = "untouched"
          /\ pc = "write" => exit_status = -1 /\ stderr = <<"no_rows_warning">>
          /\ pc = "exit" => /\ exit_status = 3
                            /\ stderr = <<"no_rows_warning", "write_error">>
    /\ (\E k \in 1..Len(stderr) : stderr[k] = "no_rows_warning") =>
          BuildReturned /\ rows = <<>>

\* C8 witness: every record of a non-empty list was filtered out and the run ended
\* with status 3
C8_Witness_AllFilteredExitThree ==
    /\ pc = "exit"
    /\ exit_status = 3
    /\ Len(markets) = MaxMarkets
    /\ rows = <<>>
    /\ stderr = <<"no_rows_warning", "write_error">>

\* C9: no output is written on failure: a run that ends with a non-zero status has
\* created no output file, whole or partial; when all three endpoints fail the run
\* ends with status 2 and neither build_rows nor write_excel is called.
C9_NoOutputOnFailure ==
    /\ (Terminated /\ exit_status # 0) => file = "untouched"
    /\ FetchFailed => exit_status = 2 /\ called = {}

Count(seq, r) == Cardinality({k \in 1..Len(seq) : seq[k] = r})
SameRows(a, b) ==
    /\ Len(a) = Len(b)
    /\ \A k \in 1..Len(a) : Count(a, a[k]) = Count(b, a[k])
AscendingByTitle(seq) ==
    \A k \in 1..Len(seq) - 1 : StrLeq(seq[k].title, seq[k + 1].title)

\* C10 as stated: the data sheet holds exactly the input rows, non-decreasing by
\* title, and rows with equal titles keep their input order.
C10_SortedAndStable ==
    file = "complete" =>
        \E p \in Orders(Len(rows)) :
            /\ Len(sheet) = Len(rows)
            /\ \A k \in 1..Len(rows) : sheet[k] = rows[p[k]]
            /\ AscendingByTitle(sheet)
            /\ \A a, b \in 1..Len(rows) :
                  (a < b /\ sheet[a].title = sheet[b].title) => p[a] < p[b]

\* C10 as amended: the data sheet holds exactly the input rows (same multiset),
\* non-decreasing by title; nothing more is said of rows with equal titles.
C10_SortedSameRows ==
    file = "complete" => SameRows(sheet, rows) /\ AscendingByTitle(sheet)

\* C10 witness: the sort moved a row of a two-row sheet
C10_Witness_SortReorders ==
    /\ file = "complete"
    /\ Len(rows) = 2
    /\ StrLess(rows[2].title, rows[1].title)
    /\ sheet = <<rows[2], rows[1]>>
====
